---- MODULE Spec2Model ----
(***************************************************************************)
(* Model of rl-test-gen: the Docker test executor                          *)
(* (rl/executor/docker_runner.py, DockerTestExecutor) and the episode      *)
(* environment that drives it (env/test_gen_env.py, TestGenEnv, used by    *)
(* rl/example_usage.py).                                                   *)
(*                                                                         *)
(* The executor is single-threaded: execute_test_suite calls execute_tests *)
(* once per target, and execute_tests talks to the Docker backend through  *)
(* containers.run, container.wait, container.logs and container.remove.    *)
(* Each of these library calls is one action; what the backend answers     *)
(* (success, an exception, a wait timeout, the runner's exit status) is    *)
(* the environment's choice.                                               *)
(***************************************************************************)
EXTENDS Integers, Sequences, FiniteSets, TLC

\* ---------------------------------------------------------------- bounds
\* Suite evaluations (execute_test_suite calls) started in one behaviour.
MaxCalls == 2
\* Exceptions the file system and the Docker backend raise in one behaviour.
MaxFaults == 1

\* Largest number of problem files in the dataset directory.
MaxFiles == 2

\* Largest number of examples given to process_examples.
MaxExamples == 2

\* -------------------------------------------------------------- constants
\* A problem holds exactly 5 perturbations.
NumPerturbations == 5

\* DockerTestExecutor(timeout=30): the instance's default time limit, seconds.
DefaultTimeout == 30

\* Time limits a caller of execute_tests passes.
Timeouts == {0, 5}

\* Python's None (the 'error' field of a result without error).
None == "None"

\* ------------------------------------------------------------------ inputs
\* Test code handed to the executor.  "passing_tests" is collected and run by
\* pytest; "syntax_error" is rejected by pytest at collection;
\* "lone_surrogate" holds a character ('\ud800') that utf-8 cannot encode.
TestCodes == {"passing_tests", "syntax_error", "lone_surrogate"}

\* The problems of the dataset: the reference implementation and the five
\* perturbations, in the order of the problem file.
Problems ==
  { [_filename |-> "a.json", spec |-> "spec_a", problem |-> "ref_a",
     perturbations |-> <<"a_logic", "a_boundary", "a_type", "a_incomplete", "a_performance">>],
    [_filename |-> "b.json", spec |-> "spec_a", problem |-> "ref_a",
     perturbations |-> <<"b_logic", "b_boundary", "b_type", "b_incomplete", "b_performance">>] }

NoProblem ==
  [_filename |-> None, spec |-> None, problem |-> None, perturbations |-> <<>>]

\* Exit statuses pytest can end with for a given test file: 0 all passed,
\* 1 some failed, 2 collection error (a syntax error in the test file).
RunnerExitCodes(test) ==
  IF test = "syntax_error" THEN {2} ELSE {0, 1}

\* Path.write_text(text, encoding='utf-8') raises UnicodeEncodeError on a lone
\* surrogate.
Unencodable(text) == text = "lone_surrogate"

VARIABLES
  pc,              \* where control is: "idle", inside execute_tests, or "raised"
  caller,          \* who called execute_test_suite: "none", "direct", "step"
  test_code,       \* execute_test_suite's argument
  problem,         \* the problem whose correct_code / perturbations are the targets
  i,               \* targets done: 0 = correct code next, k = perturbations[k-1] next
  target_code,     \* execute_tests' argument
  container,       \* state of the container of the execution in progress
  exit_code,       \* execute_tests' local, set by container.wait
  results,         \* execute_test_suite's dict 'results'
  detections,      \* execute_test_suite's list 'detections'
  correct_passed,  \* execute_test_suite's local
  detection_rate,  \* the 'detection_rate' of the returned dict, [num, den]
  outcome,         \* of the last execute_test_suite call: "none", "running", "returned", "raised"
  executions,      \* execute_tests calls entered by the last execute_test_suite call
  log,             \* history: one entry per execute_tests call of the last suite call
  leftover,        \* containers of finished execute_tests calls still at the backend
  calls,           \* execute_test_suite calls started
  faults,          \* exceptions raised so far
  tmpdir,          \* execute_tests' temporary directory (its number), 0 when it has none
  tmpdirs,         \* the temporary directories that exist on disk, with their files
  dirs_made,       \* temporary directories created since the script's last call
  timeout_arg,     \* execute_tests' argument 'timeout': <<>> for None, <<t>> for t
  timeout,         \* execute_tests' local 'timeout' after line 69, 0 outside a call
  deterministic,   \* the backend is deterministic: an execution's course depends on its two files only
  oracle,          \* deterministic backend: the course of each (test code, target code) run so far
  returns,         \* deterministic backend: what the execute_test_suite calls returned, in order
  imported,        \* dataset.py was imported, and with it the module random
  rng,             \* state of the process-wide generator of the module random
  own,             \* the generator's state had only dataset "A" been sampled
  dataset_path,    \* the dataset directory on disk
  dstate,          \* per dataset: "new", "ready" (constructed) or "failed"
  problems,        \* per dataset: self.problems
  seeded,          \* per seed: the files sample(seed) has returned so far
  last,            \* the last call on a dataset and what it returned
  gen_pc,          \* process_examples: "idle", "loop", "returned" or "raised"
  input_data,      \* process_examples' argument
  gen_i,           \* process_examples: examples taken from input_data so far
  gen_results,     \* process_examples' list 'results'
  val_pc,          \* validate_dataset.main: "idle", "loop", "returned" or "raised"
  val_files,       \* validate_dataset.main: json_files, the files of the directory problems
  val_results,     \* validate_dataset.main: its list 'results'
  val_exit,        \* validate_dataset.main: <<>> or <<the value returned>>
  envState,        \* TestGenEnv: "Idle", "AwaitingAction", "Terminated"
  current_problem, \* TestGenEnv: the problem sampled by reset
  reward,          \* last value returned by step, [num, den]
  terminated,      \* last value returned by step
  truncated,       \* last value returned by step
  step_count,      \* TestGenEnv: steps that returned since the last reset
  obs,             \* the observation the last reset returned
  event            \* what the last environment call did

suiteVars == <<test_code, problem, i, results, detections, correct_passed,
               detection_rate, outcome, executions, log>>
execVars == <<target_code, container, exit_code>>
dirVars == <<tmpdir, tmpdirs, dirs_made>>
timeoutVars == <<timeout_arg, timeout>>
detVars == <<deterministic, oracle, returns>>
dataVars == <<imported, rng, own, dataset_path, dstate, problems, seeded, last>>
envVars == <<envState, current_problem, reward, terminated, truncated, step_count, obs>>
procVars == <<pc, caller, suiteVars, execVars, dirVars, timeoutVars, leftover, calls,
              faults, detVars, envVars, event>>
genVars == <<gen_pc, input_data, gen_i, gen_results>>
valVars == <<val_pc, val_files, val_results, val_exit>>
toolVars == <<genVars, valVars>>
vars == <<procVars, dataVars, toolVars>>

\* ------------------------------------------------------------- rationals
\* Python floats k/n are kept as fractions.
Rat(n, d) == [num |-> n, den |-> d]
RatEq(a, b) == a.num * b.den = b.num * a.den
RatLe(a, b) == a.num * b.den <= b.num * a.den


\* ------------------------------------------------------- the Docker backend
\* str(e) of the exceptions docker-py raises.
RunError == "404 Client Error: image not found"
WaitError == "Read timed out."
ApiError == "500 Server Error"

\* docker.errors.ContainerError as run() would raise it.
ContainerErrors ==
  { [exit_status |-> 1, stderr |-> None, str |-> "Command returned non-zero exit status 1"] }

\* What container.logs() returns: the bytes of pytest's report.
RunnerLogs == <<"report", "0xff">>

\* bytes.decode('utf-8', errors='replace'): an undecodable byte becomes U+FFFD.
Decode(bytes) ==
  [k \in DOMAIN bytes |-> IF bytes[k] = "0xff" THEN "U+FFFD" ELSE bytes[k]]

\* The courses one execution can take at the backend: the step that fails
\* (or "ok") and the runner's exit status when it ends.
Behaviours(test) ==
  IF Unencodable(test) THEN {[cause |-> "write", code |-> 0]}
  ELSE {[cause |-> c, code |-> 0] : c \in {"write", "run", "container_error", "timeout"}}
       \cup {[cause |-> c, code |-> s] :
               c \in {"ok", "logs", "remove"}, s \in RunnerExitCodes(test)}

\* ------------------------------------------------------------ execute_tests
\* Faulty variant of NormalResult: only exit status 1 (some tests failed)
\* counts as a failure.
NormalResult_onlyOneFails(code, out) ==
  [passed |-> (code # 1), exit_code |-> code, output |-> out, error |-> None]

\* The dict of the normal return.
NormalResult(code, out) ==
  [passed |-> (code = 0), exit_code |-> code, output |-> out, error |-> None]

\* The dict of 'except docker.errors.ContainerError as e'.
ContainerErrorResult(e) ==
  [passed |-> FALSE, exit_code |-> e.exit_status,
   output |-> IF e.stderr # None THEN Decode(e.stderr) ELSE <<>>,
   error |-> "Container error: " \o e.str]

\* The dict of 'except Exception as e'.
FailedResult(e) ==
  [passed |-> FALSE, exit_code |-> -1, output |-> <<>>,
   error |-> "Execution failed: " \o e]

\* ------------------------------------------------------- execute_test_suite
\* Faulty variant of PerturbationKey: keys numbered from 1.
PerturbationKey_oneBased(j) == "perturbation_" \o ToString(j + 1)

\* f'perturbation_{i}'
PerturbationKey(j) == "perturbation_" \o ToString(j)

\* The target of the execution after d targets are done.
Target(p, d) == IF d = 0 THEN p.problem ELSE p.perturbations[d]

\* timeout or self.timeout (line 69): Python's 'or' gives its right operand
\* when the left one is falsy, which None and 0 both are.  self.timeout is the
\* constructor's default.
EffectiveTimeout(arg) ==
  IF arg # <<>> /\ arg[1] # 0 THEN arg[1] ELSE DefaultTimeout

\* Faulty variant of Detected: the negation is lost.
Detected_noNegation(perturb_result) == perturb_result.passed

\* detected = not perturb_result['passed']
Detected(perturb_result) == ~perturb_result.passed

\* sum(detections): True counts 1, False counts 0.
RECURSIVE Sum(_)
Sum(d) == IF d = <<>> THEN 0 ELSE (IF Head(d) THEN 1 ELSE 0) + Sum(Tail(d))

\* Faulty variant of DetectionRate: divides by the number of targets, the
\* correct code included.
DetectionRate_perTarget(d) ==
  IF Len(d) > 0 THEN Rat(Sum(d), Len(d) + 1) ELSE Rat(0, 1)

\* detection_rate = sum(detections) / len(detections) if detections else 0.0
DetectionRate(d) ==
  IF Len(d) > 0 THEN Rat(Sum(d), Len(d)) ELSE Rat(0, 1)

\* -------------------------------------------------------------- TestGenEnv
\* Faulty variant of Score: the gate on the correct code is lost.
Score_noGate(passed, rate) == rate

\* RewardPolicy: -1.0 when the suite rejects the correct code, else the
\* detection rate.
Score(passed, rate) == IF ~passed THEN Rat(-1, 1) ELSE rate

\* Faulty variant of Observation: the whole problem is handed out.
Observation_wholeProblem(p) ==
  [spec |-> p.spec, correct_code |-> p.problem, perturbations |-> p.perturbations]

\* The observation of reset: the specification and the reference code of the
\* sampled problem (obs['spec'], obs['correct_code']).
Observation(p) == [spec |-> p.spec, correct_code |-> p.problem]

\* ------------------------------------------------------------- the dataset
\* Values of a parsed JSON document: a string, a number, a list.
JStr(s) == [t |-> "str", s |-> s, items |-> <<>>]
JNum == [t |-> "num", s |-> "", items |-> <<>>]
JList(items) == [t |-> "list", s |-> "", items |-> items]

\* A text that is not Python: compile() raises SyntaxError on it.
BrokenCode == "def solve(:"

\* compile(code, '<string>', 'exec') raises no SyntaxError.
SyntaxValid(code) == code # BrokenCode

\* The members of a well-formed problem document.
WellFormed(tag) ==
  [spec |-> JStr("spec_" \o tag),
   problem |-> JStr("ref_" \o tag),
   perturbations |-> JList(<<JStr(tag \o "_logic"), JStr(tag \o "_boundary"),
                             JStr(tag \o "_type"), JStr(tag \o "_incomplete"),
                             JStr(tag \o "_performance")>>)]

\* A JSON object without one of its members.
Without(object, field) == [k \in DOMAIN object \ {field} |-> object[k]]

\* A file of the dataset directory: its name, whether json.load parses it,
\* whether the document is an object, and the object's members.
ProblemFile(name, fields) ==
  [name |-> name, parses |-> TRUE, isdict |-> TRUE, fields |-> fields]

\* The files a dataset directory may hold: two well-formed problems and one
\* file for each way of being malformed.
Files ==
  {ProblemFile("a.json", WellFormed("a")),
   ProblemFile("b.json", WellFormed("b")),
   [name |-> "invalid_json.json", parses |-> FALSE, isdict |-> FALSE,
    fields |-> <<>>],
   ProblemFile("missing_spec.json", Without(WellFormed("a"), "spec")),
   ProblemFile("perturbations_not_list.json",
               [WellFormed("a") EXCEPT !.perturbations = JStr("a_logic")]),
   ProblemFile("four_perturbations.json",
               [WellFormed("a") EXCEPT
                  !.perturbations = JList(SubSeq(@.items, 1, NumPerturbations - 1))]),
   ProblemFile("nonstring_perturbation.json",
               [WellFormed("a") EXCEPT !.perturbations.items[2] = JNum]),
   ProblemFile("syntax_invalid_problem.json",
               [WellFormed("a") EXCEPT !.problem = JStr(BrokenCode)])}

\* What dataset_path may be: a path that does not exist, or a directory whose
\* *.json files glob lists in some order.
DatasetDirs ==
  {[exists |-> FALSE, files |-> <<>>]} \cup
  {[exists |-> TRUE, files |-> fs] :
     fs \in {s \in UNION {[1..n -> Files] : n \in 0..MaxFiles} :
               \A j, k \in DOMAIN s : j # k => s[j].name # s[k].name}}

\* The datasets of the process.
Datasets == {"A", "B"}

\* Seeds passed to sample.
Seeds == {0, 1}

\* Indices passed to get_by_index.
Indices == {-1, 0, MaxFiles}

\* Faulty variant of _validate_problem: the number of perturbations is not
\* checked.
_validate_problem_anyLength(p) ==
  /\ \A field \in {"spec", "problem", "perturbations"} : field \in DOMAIN p
  /\ p.perturbations.t = "list"
  /\ p.spec.t = "str"
  /\ p.problem.t = "str"

\* _validate_problem raises nothing: the three fields are present,
\* perturbations is a list of 5 elements, spec and problem are strings.
_validate_problem(p) ==
  /\ \A field \in {"spec", "problem", "perturbations"} : field \in DOMAIN p
  /\ p.perturbations.t = "list"
  /\ Len(p.perturbations.items) = NumPerturbations
  /\ p.spec.t = "str"
  /\ p.problem.t = "str"

\* The body of the try of lines 33-38 raises nothing.  A document that is
\* not an object fails in _validate_problem, by ValueError or TypeError.
Loads(json_file) ==
  /\ json_file.parses
  /\ json_file.isdict
  /\ _validate_problem(json_file.fields)

\* problem['_filename'] = json_file.name
Loaded(json_file) == ("_filename" :> JStr(json_file.name)) @@ json_file.fields

\* Faulty variant of LoadFiles: the first file that fails ends the loop.
RECURSIVE LoadFiles_abortsOnFailure(_)
LoadFiles_abortsOnFailure(json_files) ==
  IF json_files = <<>> \/ ~Loads(Head(json_files)) THEN <<>>
  ELSE <<Loaded(Head(json_files))>> \o LoadFiles_abortsOnFailure(Tail(json_files))

\* The loop of lines 32-42: a file that fails is reported and skipped.
RECURSIVE LoadFiles(_)
LoadFiles(json_files) ==
  IF json_files = <<>> THEN <<>>
  ELSE (IF Loads(Head(json_files)) THEN <<Loaded(Head(json_files))>> ELSE <<>>)
         \o LoadFiles(Tail(json_files))

\* _load_problems: ValueError when the path does not exist, holds no *.json
\* file, or no file of it loads.
_load_problems(path) ==
  IF ~path.exists \/ path.files = <<>> THEN [raised |-> TRUE, problems |-> <<>>]
  ELSE [raised |-> LoadFiles(path.files) = <<>>, problems |-> LoadFiles(path.files)]

\* The generator of the module random, reduced to four states.
RngStates == 0 .. 3

\* random.seed(a): the state is a function of a alone.
RandomSeed(a) == (2 * a + 1) % 4

\* The state after one draw.
Advance(state) == (5 * state + 3) % 4

\* random.choice(seq) drawn in state 'state'.
RandomChoice(state, seq) == seq[((state \div 2) % Len(seq)) + 1]

\* Faulty variant of Seeded: 'if seed:' instead of 'if seed is not None:'.
Seeded_truthy(state, seed) ==
  IF seed # <<>> /\ seed[1] # 0 THEN RandomSeed(seed[1]) ELSE state

\* Lines 88-89: 'if seed is not None: random.seed(seed)'.  seed is <<>> for
\* None.
Seeded(state, seed) ==
  IF seed # <<>> THEN RandomSeed(seed[1]) ELSE state

\* No call on a dataset yet.
NoReturn ==
  [op |-> "none", dataset |-> None, seed |-> <<>>, repeat |-> FALSE,
   reseeded |-> FALSE,
   raised |-> FALSE, value |-> <<>>, alone |-> <<>>]

\* ----------------------------------------------------------- the generator
\* The list 'categories' of process_examples.
categories ==
  <<"Logic errors", "Boundary errors", "Type errors",
    "Incomplete implementations", "Performance bugs">>

\* The examples an input file may hold.
Examples ==
  {[specification |-> "spec_a", code |-> "ref_a"],
   [specification |-> "spec_b", code |-> "ref_b"]}

\* A list of n code strings, as the model writes them.
Codes(n) == JList([k \in 1..n |-> JStr("variant_" \o ToString(k))])

\* An answer of the Ollama API: the HTTP status, and what each of the three
\* parsers makes of the response text, <<>> when it fails and <<v>> when it
\* yields v: json.loads, json.loads after the unicode_escape repair, and
\* ast.literal_eval.
Reply(status, loads, repaired, literal) ==
  [status |-> status, loads |-> loads, repaired |-> repaired, literal |-> literal]

\* The answers considered: arrays of 5, 4, 6 and 0 strings, a number, an
\* object, an array of 4 readable only after the repair, a single-quoted
\* list of 5, a tuple, text no parser reads, and an HTTP error.
Replies ==
  {Reply(200, <<Codes(NumPerturbations)>>, <<>>, <<>>),
   Reply(200, <<Codes(NumPerturbations - 1)>>, <<>>, <<>>),
   Reply(200, <<Codes(NumPerturbations + 1)>>, <<>>, <<>>),
   Reply(200, <<Codes(0)>>, <<>>, <<>>),
   Reply(200, <<JNum>>, <<>>, <<>>),
   Reply(200, <<[t |-> "dict", s |-> "", items |-> <<JStr("perturbations")>>]>>,
         <<>>, <<>>),
   Reply(200, <<>>, <<Codes(NumPerturbations - 1)>>, <<>>),
   Reply(200, <<>>, <<>>, <<Codes(NumPerturbations)>>),
   Reply(200, <<>>, <<>>, <<[t |-> "tuple", s |-> "", items |-> Codes(2).items]>>),
   Reply(200, <<>>, <<>>, <<>>),
   Reply(500, <<>>, <<>>, <<>>)}

\* len(v) is defined: v is a list, a string or an object.
HasLen(v) == v.t \in {"list", "str", "dict"}

\* generate_perturbations_ollama from the answer on: an exception for a
\* status other than 200 (lines 88-89); json.loads' value, with TypeError when
\* len() does not apply to it (113-116); else the repaired text's value, every
\* exception swallowed (119-128); else literal_eval's value when it is a list
\* (131-139); else the empty list (146).
generate_perturbations_ollama(reply) ==
  IF reply.status # 200 THEN [raised |-> TRUE, value |-> Codes(0)]
  ELSE IF reply.loads # <<>>
    THEN [raised |-> ~HasLen(reply.loads[1]), value |-> reply.loads[1]]
  ELSE IF reply.repaired # <<>> /\ HasLen(reply.repaired[1])
    THEN [raised |-> FALSE, value |-> reply.repaired[1]]
  ELSE IF reply.literal # <<>> /\ reply.literal[1].t = "list"
    THEN [raised |-> FALSE, value |-> reply.literal[1]]
  ELSE [raised |-> FALSE, value |-> Codes(0)]

\* 'not perturbations or len(perturbations) == 0' (line 185).
Skipped(perturbations) == perturbations.items = <<>>

\* ------------------------------------------------------------ the validator
\* A path given to validate_json_file: a file of a directory, or no file.
ValidatorFile(json_file) == ("exists" :> TRUE) @@ json_file

\* A file whose document is not an object: 'fields' holds the parsed value.
ValueFile(name, value) ==
  [name |-> name, parses |-> TRUE, isdict |-> FALSE, fields |-> value]

\* The paths validate_json_file may be given: the files of a dataset
\* directory, more ways of being malformed, and a path that does not exist.
ValPaths ==
  {ValidatorFile(f) : f \in Files} \cup
  {ValidatorFile(f) : f \in
     {ValueFile("number.json", JNum),
      ValueFile("empty_list.json", JList(<<>>)),
      ValueFile("list_of_names.json",
                JList(<<JStr("spec"), JStr("problem"), JStr("perturbations")>>)),
      ValueFile("text.json", JStr("spec, problem, perturbations")),
      ProblemFile("spec_not_string.json", [WellFormed("a") EXCEPT !.spec = JNum]),
      ProblemFile("blank_spec.json", [WellFormed("a") EXCEPT !.spec = JStr("  ")]),
      ProblemFile("problem_not_string.json",
                  [WellFormed("a") EXCEPT !.problem = JNum]),
      ProblemFile("empty_problem.json", [WellFormed("a") EXCEPT !.problem = JStr("")]),
      ProblemFile("perturbations_number.json",
                  [WellFormed("a") EXCEPT !.perturbations = JNum]),
      ProblemFile("empty_perturbation.json",
                  [WellFormed("a") EXCEPT !.perturbations.items[3] = JStr("")]),
      ProblemFile("syntax_invalid_perturbation.json",
                  [WellFormed("a") EXCEPT
                     !.perturbations.items[5] = JStr(BrokenCode)])}} \cup
  {[name |-> "absent.json", exists |-> FALSE, parses |-> FALSE,
    isdict |-> FALSE, fields |-> <<>>]}

\* What the directory 'problems' may be: missing, or a directory whose
\* *.json files glob lists in some order.
ValDirs ==
  {[exists |-> FALSE, files |-> <<>>]} \cup
  {[exists |-> TRUE, files |-> fs] :
     fs \in {s \in UNION {[1..n -> {f \in ValPaths : f.exists}] : n \in 0..MaxFiles} :
               \A j, k \in DOMAIN s : j # k => s[j].name # s[k].name}}

\* required_fields (line 35).
required_fields == <<"spec", "problem", "perturbations">>

\* len(s.strip()) == 0: s holds nothing but whitespace.
Blank(s) == \A k \in 1..Len(s) : SubSeq(s, k, k) = " "

\* What iterating over a str yields: its characters.
Characters(s) == [k \in 1..Len(s) |-> JStr(SubSeq(s, k, k))]

\* 'field not in data' raises TypeError: data is neither an object, a list
\* nor a str.
InRaises(json_file) ==
  ~json_file.isdict /\ json_file.fields.t \notin {"list", "str"}

\* 'field in data': a key of an object, an element of a list, a substring
\* of a str.
HasMember(json_file, field) ==
  IF json_file.isdict THEN field \in DOMAIN json_file.fields
  ELSE IF json_file.fields.t = "list"
    THEN \E j \in DOMAIN json_file.fields.items :
           json_file.fields.items[j] = JStr(field)
  ELSE \E a \in 1..Len(json_file.fields.s) :
         \E b \in a..Len(json_file.fields.s) :
           SubSeq(json_file.fields.s, a, b) = field

\* Lines 36-38: one error for each required field that is missing.
MissingErrors(json_file) ==
  LET Error(field) == "Missing required field: '" \o field \o "'"
      missing == SelectSeq(required_fields,
                           LAMBDA field : ~HasMember(json_file, field))
  IN [k \in DOMAIN missing |-> Error(missing[k])]

\* Lines 44-52: spec and problem must be strings, and not empty.
StringErrors(field, value) ==
  IF value.t # "str" THEN <<"'" \o field \o "' must be a string">>
  ELSE IF Blank(value.s) THEN <<"'" \o field \o "' cannot be empty">>
  ELSE <<>>

\* Faulty variant of CountErrors: the number of perturbations is not checked.
CountErrors_unchecked(perturbations) == <<>>

\* Lines 58-61: there must be exactly 5 perturbations.
CountErrors(perturbations) ==
  IF Len(perturbations.items) # NumPerturbations
    THEN <<"Expected exactly 5 perturbations, got "
           \o ToString(Len(perturbations.items))>>
  ELSE <<>>

\* Lines 64-68: each perturbation must be a string, and not empty.
RECURSIVE ElementErrors(_, _)
ElementErrors(items, n) ==
  IF n > Len(items) THEN <<>>
  ELSE (IF items[n].t # "str"
          THEN <<"Perturbation " \o ToString(n - 1) \o " must be a string">>
        ELSE IF Blank(items[n].s)
          THEN <<"Perturbation " \o ToString(n - 1) \o " cannot be empty">>
        ELSE <<>>) \o ElementErrors(items, n + 1)

\* Lines 54-68: perturbations must be a list of 5 non-empty strings.
PerturbationsErrors(perturbations) ==
  IF perturbations.t # "list" THEN <<"'perturbations' must be a list">>
  ELSE CountErrors(perturbations) \o ElementErrors(perturbations.items, 1)

\* Lines 76-81: every element that is a str is compiled; the others are
\* passed over.
RECURSIVE ElementSyntaxErrors(_, _)
ElementSyntaxErrors(items, n) ==
  IF n > Len(items) THEN <<>>
  ELSE (IF items[n].t = "str" /\ ~SyntaxValid(items[n].s)
          THEN <<"Syntax error in perturbation " \o ToString(n - 1)>>
        ELSE <<>>) \o ElementSyntaxErrors(items, n + 1)

\* validate_json_file(filepath): it raises, or it returns
\* (is_valid, errors).
validate_json_file(filepath) ==
  LET Returns(errors) ==
        [raised |-> FALSE, is_valid |-> Len(errors) = 0, errors |-> errors]
      Raises == [raised |-> TRUE, is_valid |-> FALSE, errors |-> <<>>]
      data == filepath.fields
  IN IF ~filepath.exists THEN Returns(<<"File not found: " \o filepath.name>>)
     ELSE IF ~filepath.parses THEN Returns(<<"Invalid JSON">>)
     \* line 37: TypeError, argument is not iterable
     ELSE IF InRaises(filepath) THEN Raises
     ELSE IF MissingErrors(filepath) # <<>> THEN Returns(MissingErrors(filepath))
     \* line 44: data['spec'] of a list or a str is a TypeError
     ELSE IF ~filepath.isdict THEN Raises
     \* line 72: compile() of a value that is not a str is a TypeError, and
     \* only SyntaxError is caught
     ELSE IF data.problem.t # "str" THEN Raises
     \* line 76: enumerate() of a value that is not iterable is a TypeError
     ELSE IF data.perturbations.t \notin {"list", "str"} THEN Raises
     ELSE Returns(
            StringErrors("spec", data.spec)
            \o StringErrors("problem", data.problem)
            \o PerturbationsErrors(data.perturbations)
            \o (IF SyntaxValid(data.problem.s) THEN <<>>
                ELSE <<"Syntax error in 'problem'">>)
            \o ElementSyntaxErrors(
                 IF data.perturbations.t = "list" THEN data.perturbations.items
                 ELSE Characters(data.perturbations.s), 1))

\* ------------------------------------------------------------------- Init
Init ==
  /\ pc = "idle"
  /\ caller = "none"
  /\ test_code = None
  /\ problem = NoProblem
  /\ i = 0
  /\ target_code = None
  /\ container = "none"
  /\ exit_code = 0
  /\ results = <<>>
  /\ detections = <<>>
  /\ correct_passed = FALSE
  /\ detection_rate = Rat(0, 1)
  /\ outcome = "none"
  /\ executions = 0
  /\ log = <<>>
  /\ leftover = [running |-> 0, exited |-> 0]
  /\ calls = 0
  /\ faults = 0
  /\ tmpdir = 0
  /\ tmpdirs = {}
  /\ dirs_made = 0
  /\ timeout_arg = <<>>
  /\ timeout = 0
  /\ deterministic = FALSE
  /\ oracle = <<>>
  /\ returns = <<>>
  /\ imported = FALSE
  /\ rng = 0
  /\ own = 0
  /\ dataset_path = [exists |-> FALSE, files |-> <<>>]
  /\ dstate = [d \in Datasets |-> "new"]
  /\ problems = [d \in Datasets |-> <<>>]
  /\ seeded = [s \in Seeds |-> {}]
  /\ last = NoReturn
  /\ gen_pc = "idle"
  /\ input_data = <<>>
  /\ gen_i = 0
  /\ gen_results = <<>>
  /\ val_pc = "idle"
  /\ val_files = <<>>
  /\ val_results = <<>>
  /\ val_exit = <<>>
  /\ envState = "Idle"
  /\ current_problem = NoProblem
  /\ reward = Rat(0, 1)
  /\ terminated = FALSE
  /\ truncated = FALSE
  /\ step_count = 0
  /\ obs = Observation(NoProblem)
  /\ event = "none"

\* ---------------------------------------------------------------- helpers
\* Entry of execute_test_suite: results = {} and the first call's arguments.
StartSuite(tc, p, who) ==
  /\ pc = "idle"
  /\ calls < MaxCalls
  /\ calls' = calls + 1
  /\ pc' = "call"
  /\ caller' = who
  /\ test_code' = tc
  /\ problem' = p
  /\ i' = 0
  /\ results' = <<>>
  /\ detections' = <<>>
  /\ correct_passed' = FALSE
  /\ detection_rate' = Rat(0, 1)
  /\ outcome' = "running"
  /\ executions' = 0
  /\ log' = <<>>
  /\ timeout_arg' = <<>>
  /\ dirs_made' = 0
  /\ UNCHANGED <<execVars, leftover, faults, tmpdir, tmpdirs, timeout, dataVars, toolVars, detVars>>

\* tempfile.TemporaryDirectory() followed by the two write_text calls: a new
\* directory holding test_generated.py and solution.py.
NewDir(id, test, target) ==
  [id |-> id,
   files |-> ("test_generated.py" :> test) @@ ("solution.py" :> target)]

\* Faulty variant of Cleanup: the directory is made with mkdtemp and never
\* removed.
Cleanup_never(dirs, id) == dirs

\* Leaving the 'with tempfile.TemporaryDirectory()' block, by return or by an
\* exception, removes the directory and its contents.
Cleanup(dirs, id) == {d \in dirs : d.id # id}

\* What an execute_tests call leaves at the backend when it ends: its
\* container, unless none was started or container.remove() removed it.
Left(removed) ==
  IF removed \/ container = "none" THEN "none" ELSE container

\* One history entry for the execute_tests call that ends now: its target, how
\* it ended, whether container.wait returned and with which StatusCode, the
\* container it leaves and the dict it returns.
LogEntry(cause, removed, ret) ==
  [target |-> target_code, cause |-> cause,
   completed |-> (container = "exited"), StatusCode |-> exit_code,
   left |-> Left(removed), tmpdir |-> tmpdir,
   timeout_arg |-> timeout_arg, timeout |-> timeout, ret |-> ret]

\* execute_tests returns 'result'.  A script that called it has the result;
\* execute_test_suite stores it: lines 155-156 for the correct code, lines
\* 164-170 for a perturbation.  The container, when one exists and was not
\* removed, stays at the backend.
Return(result, cause, removed) ==
  /\ log' = Append(log, LogEntry(cause, removed, <<result>>))
  /\ IF caller = "tests"
       THEN /\ pc' = "idle"
            /\ caller' = "none"
            /\ outcome' = "returned"
            /\ UNCHANGED <<i, results, detections, correct_passed>>
       ELSE /\ IF i = 0
                 THEN /\ results' = ("correct" :> result) @@ results
                      /\ correct_passed' = result.passed
                      /\ detections' = <<>>
                 ELSE /\ detections' = Append(detections, Detected(result))
                      /\ results' = (PerturbationKey(i - 1) :> result) @@ results
                      /\ UNCHANGED correct_passed
            /\ i' = i + 1
            /\ pc' = "call"
            /\ UNCHANGED <<caller, outcome>>
  /\ leftover' =
       IF Left(removed) = "none" THEN leftover
       ELSE [leftover EXCEPT ![Left(removed)] = @ + 1]
  /\ container' = "none"
  /\ exit_code' = 0
  /\ target_code' = None
  /\ tmpdirs' = Cleanup(tmpdirs, tmpdir)
  /\ tmpdir' = 0
  /\ timeout_arg' = <<>>
  /\ timeout' = 0
  /\ UNCHANGED <<test_code, problem, detection_rate, executions,
                 calls, dirs_made, envVars, event, dataVars, toolVars, detVars>>

\* The target code of the execute_tests call to enter: the script's argument,
\* or the suite's next target.
CallTarget == IF caller = "tests" THEN target_code ELSE Target(problem, i)

\* An execute_tests call is about to be entered.
AtCall == pc = "call" /\ (caller = "tests" \/ i <= Len(problem.perturbations))

\* The backend or the file system raises: one more fault.  A deterministic
\* backend fails where its oracle says, every time.
Fault ==
  IF deterministic THEN UNCHANGED faults
  ELSE /\ faults < MaxFaults
       /\ faults' = faults + 1

\* A deterministic backend takes the course its oracle holds for the two files
\* of the execution in progress.
Follows(causes) ==
  deterministic => oracle[<<test_code, target_code>>].cause \in causes

\* Faulty variant of Decide: the backend does not look up what it did for the
\* same two files before.
Decide_forgets(b) ==
  IF ~deterministic THEN UNCHANGED oracle
  ELSE /\ b.cause \notin {"ok", "write"} =>
            Cardinality({k \in DOMAIN oracle : oracle[k].cause # "ok"}) < MaxFaults
       /\ oracle' = (<<test_code, CallTarget>> :> b) @@ oracle

\* execute_tests is entered on a deterministic backend: the course b is the one
\* the oracle holds for the two files, or a new one the oracle keeps from now
\* on; at most MaxFaults pairs of files fail.
Decide(b) ==
  IF ~deterministic THEN UNCHANGED oracle
  ELSE IF <<test_code, CallTarget>> \in DOMAIN oracle
         THEN /\ b = oracle[<<test_code, CallTarget>>]
              /\ UNCHANGED oracle
         ELSE /\ b.cause \notin {"ok", "write"} =>
                   Cardinality({k \in DOMAIN oracle : oracle[k].cause # "ok"}) < MaxFaults
              /\ oracle' = (<<test_code, CallTarget>> :> b) @@ oracle

\* The dict execute_test_suite returns (lines 174-179).
SuiteResult(cp, det, rate, res) ==
  [raised |-> FALSE, correct_passed |-> cp, detections |-> det,
   detection_rate |-> rate, results |-> res]

\* execute_test_suite raised.
SuiteRaised ==
  [raised |-> TRUE, correct_passed |-> FALSE, detections |-> <<>>,
   detection_rate |-> Rat(0, 1), results |-> <<>>]


\* ------------------------------------------------- actions: execute_tests
\* execute_test_suite calls execute_tests for the next target; execute_tests
\* creates the temporary directory and writes test_generated.py and
\* solution.py (lines 69-81).
EnterOk ==
  /\ AtCall
  /\ ~Unencodable(test_code)
  /\ IF deterministic
       THEN \E b \in Behaviours(test_code) : b.cause # "write" /\ Decide(b)
       ELSE UNCHANGED oracle
  /\ executions' = executions + 1
  /\ target_code' = CallTarget
  /\ timeout' = EffectiveTimeout(timeout_arg)
  /\ dirs_made' = dirs_made + 1
  /\ tmpdir' = dirs_made'
  /\ tmpdirs' = tmpdirs \cup {NewDir(dirs_made', test_code, CallTarget)}
  /\ pc' = "run"
  /\ UNCHANGED <<caller, test_code, problem, i, results, detections, correct_passed,
                 detection_rate, outcome, log, container, exit_code, leftover,
                 calls, faults, timeout_arg, envVars, event, dataVars, toolVars, deterministic, returns>>

\* Creating the directory or writing a file raises (OSError, or
\* UnicodeEncodeError for text utf-8 cannot encode).  Lines 72-81 are outside
\* the try block: the exception leaves execute_tests and, uncaught in
\* execute_test_suite, leaves it too.  A directory that was created is removed
\* on the way out of the with block.
EnterRaises ==
  /\ AtCall
  /\ IF deterministic
       THEN \E b \in Behaviours(test_code) : b.cause = "write" /\ Decide(b)
       ELSE UNCHANGED oracle
  /\ returns' = IF deterministic /\ caller # "tests"
                  THEN Append(returns, SuiteRaised) ELSE returns
  /\ \/ /\ Unencodable(test_code)
        /\ dirs_made' = dirs_made + 1
        /\ UNCHANGED faults
     \/ /\ ~Unencodable(test_code)
        /\ Fault
        /\ dirs_made' \in {dirs_made, dirs_made + 1}
  /\ tmpdirs' = Cleanup(tmpdirs \cup {NewDir(dirs_made', test_code, CallTarget)},
                        dirs_made')
  /\ tmpdir' = 0
  /\ timeout_arg' = <<>>
  /\ timeout' = 0
  /\ executions' = executions + 1
  /\ log' = Append(log, [target |-> CallTarget, cause |-> "write",
                         completed |-> FALSE, StatusCode |-> 0, left |-> "none",
                         tmpdir |-> IF dirs_made' = dirs_made THEN 0 ELSE dirs_made',
                         timeout_arg |-> timeout_arg,
                         timeout |-> EffectiveTimeout(timeout_arg),
                         ret |-> <<>>])
  /\ outcome' = "raised"
  /\ pc' = "raised"
  /\ UNCHANGED <<caller, test_code, problem, i, results, detections, correct_passed,
                 detection_rate, execVars, leftover, calls, envVars, event, dataVars, toolVars, deterministic>>

\* client.containers.run(..., detach=True) returns the started container.
RunOk ==
  /\ pc = "run"
  /\ Follows({"timeout", "ok", "logs", "remove"})
  /\ container' = "running"
  /\ pc' = "wait"
  /\ UNCHANGED <<caller, suiteVars, target_code, exit_code, leftover, calls,
                 faults, envVars, event, dirVars, timeoutVars, dataVars, toolVars, detVars>>

\* containers.run raises (image missing, backend unreachable): 'except
\* Exception' returns the failure dict.
RunRaises ==
  /\ pc = "run"
  /\ Follows({"run"})
  /\ Fault
  /\ Return(FailedResult(RunError), "run", FALSE)

\* containers.run raises docker.errors.ContainerError.
RunContainerError ==
  /\ pc = "run"
  /\ Follows({"container_error"})
  /\ Fault
  /\ \E e \in ContainerErrors : Return(ContainerErrorResult(e), "container_error", FALSE)

\* container.wait(timeout=timeout) returns the runner's exit status.
WaitOk ==
  /\ pc = "wait"
  /\ Follows({"ok", "logs", "remove"})
  /\ \E s \in RunnerExitCodes(test_code) :
       /\ deterministic => s = oracle[<<test_code, target_code>>].code
       /\ exit_code' = s
  /\ container' = "exited"
  /\ pc' = "logs"
  /\ UNCHANGED <<caller, suiteVars, target_code, leftover, calls, faults, envVars, event, dirVars, timeoutVars, dataVars, toolVars, detVars>>

\* The runner is still running when the wall-clock limit expires:
\* container.wait raises, 'except Exception' returns the failure dict.  Nothing
\* stops or removes the container.
WaitTimeout ==
  /\ pc = "wait"
  /\ Follows({"timeout"})
  /\ Fault
  /\ Return(FailedResult(WaitError), "timeout", FALSE)

\* container.logs() returns the output.
LogsOk ==
  /\ pc = "logs"
  /\ Follows({"ok", "remove"})
  /\ pc' = "remove"
  /\ UNCHANGED <<caller, suiteVars, execVars, leftover, calls, faults, envVars, event, dirVars, timeoutVars, dataVars, toolVars, detVars>>

\* container.logs() raises: the failure dict is returned, container.remove()
\* is skipped.
LogsRaises ==
  /\ pc = "logs"
  /\ Follows({"logs"})
  /\ Fault
  /\ Return(FailedResult(ApiError), "logs", FALSE)

\* container.remove() succeeds and the normal dict is returned (lines 103-113).
RemoveOk ==
  /\ pc = "remove"
  /\ Follows({"ok"})
  /\ UNCHANGED faults
  /\ Return(NormalResult(exit_code, Decode(RunnerLogs)), "ok", TRUE)

\* container.remove() raises: the failure dict is returned.
RemoveRaises ==
  /\ pc = "remove"
  /\ Follows({"remove"})
  /\ Fault
  /\ Return(FailedResult(ApiError), "remove", FALSE)

\* -------------------------------------------- actions: execute_test_suite
\* Lines 172-179: the loop is over, the dict is built and returned.
SuiteReturns ==
  /\ pc = "call"
  /\ i > Len(problem.perturbations)
  /\ detection_rate' = DetectionRate(detections)
  /\ returns' =
       IF deterministic
         THEN Append(returns, SuiteResult(correct_passed, detections,
                                          DetectionRate(detections), results))
         ELSE returns
  /\ outcome' = "returned"
  /\ pc' = "idle"
  /\ caller' = "none"
  /\ UNCHANGED <<test_code, problem, i, results, detections, correct_passed,
                 executions, log, execVars, leftover, calls, faults, dirVars, timeoutVars, dataVars, toolVars, deterministic, oracle>>

\* A script calls execute_test_suite itself (test_docker_execution.py).
CallDirect ==
  /\ \E tc \in TestCodes, p \in Problems : StartSuite(tc, p, "direct")
  /\ UNCHANGED <<envVars, event>>

DirectReturn ==
  /\ caller = "direct"
  /\ SuiteReturns
  /\ UNCHANGED <<envVars, event>>

\* The exception reaches the script, which reports it.
DirectRaised ==
  /\ pc = "raised"
  /\ caller = "direct"
  /\ pc' = "idle"
  /\ caller' = "none"
  /\ UNCHANGED <<suiteVars, execVars, leftover, calls, faults, envVars, event, dirVars, timeoutVars, dataVars, toolVars, detVars>>

\* Target codes a script passes to execute_tests.
TargetCodes ==
  {p.problem : p \in Problems} \cup {p.perturbations[1] : p \in Problems}

\* A script calls execute_tests itself (test_docker_execution.py lines 49, 70,
\* 88), with or without a timeout.
CallExecuteTests ==
  /\ pc = "idle"
  /\ calls < MaxCalls
  /\ calls' = calls + 1
  /\ pc' = "call"
  /\ caller' = "tests"
  /\ \E tc \in TestCodes, code \in TargetCodes :
       /\ test_code' = tc
       /\ target_code' = code
  /\ timeout_arg' \in {<<>>} \cup {<<t>> : t \in Timeouts}
  /\ outcome' = "running"
  /\ executions' = 0
  /\ log' = <<>>
  /\ dirs_made' = 0
  /\ UNCHANGED <<problem, i, results, detections, correct_passed, detection_rate,
                 container, exit_code, tmpdir, tmpdirs, timeout, leftover, faults,
                 envVars, event, dataVars, toolVars, detVars>>

\* The exception of execute_tests reaches the script.
TestsRaised ==
  /\ pc = "raised"
  /\ caller = "tests"
  /\ pc' = "idle"
  /\ caller' = "none"
  /\ target_code' = None
  /\ UNCHANGED <<suiteVars, container, exit_code, dirVars, timeoutVars, leftover,
                 calls, faults, envVars, event, dataVars, toolVars, detVars>>

\* The backend is a deterministic one from the start.
UseDeterministicBackend ==
  /\ pc = "idle"
  /\ calls = 0
  /\ ~deterministic
  /\ deterministic' = TRUE
  /\ UNCHANGED <<pc, caller, suiteVars, execVars, dirVars, timeoutVars, leftover,
                 calls, faults, oracle, returns, envVars, event, dataVars, toolVars>>

\* The script's first execute_test_suite call on the deterministic backend,
\* for the problem of a.json.
CallDirectOnce ==
  /\ deterministic
  /\ calls = 0
  /\ \E tc \in TestCodes, p \in {q \in Problems : q._filename = "a.json"} :
       StartSuite(tc, p, "direct")
  /\ UNCHANGED <<envVars, event>>

\* The script calls execute_test_suite again with the arguments of the call
\* before.
CallDirectAgain ==
  /\ deterministic
  /\ outcome \in {"returned", "raised"}
  /\ StartSuite(test_code, problem, "direct")
  /\ UNCHANGED <<envVars, event>>

\* ------------------------------------------------ actions: ProblemDataset
\* The process starts: dataset.py is imported, 'import random' (line 5) seeds
\* the generator from the operating system, and the dataset directory is in
\* some condition.
StartProcess ==
  /\ ~imported
  /\ imported' = TRUE
  /\ \E state \in RngStates :
       /\ rng' = state
       /\ own' = state
  /\ dataset_path' \in DatasetDirs
  /\ UNCHANGED <<procVars, toolVars, dstate, problems, seeded, last>>

\* ProblemDataset(dataset_path): __init__ runs _load_problems.
Construct(d) ==
  /\ imported
  /\ dstate[d] = "new"
  /\ dstate' = [dstate EXCEPT ![d] =
                  IF _load_problems(dataset_path).raised THEN "failed" ELSE "ready"]
  /\ problems' = [problems EXCEPT ![d] =
                    IF _load_problems(dataset_path).raised THEN <<>>
                    ELSE _load_problems(dataset_path).problems]
  /\ last' = [NoReturn EXCEPT !.op = "init", !.dataset = d,
                             !.raised = _load_problems(dataset_path).raised]
  /\ UNCHANGED <<procVars, toolVars, imported, rng, own, dataset_path, seeded>>

\* sample(seed): seeds the shared generator when a seed is given, then draws.
\* 'alone' is what dataset "A" would have drawn had no other dataset sampled.
Sample(d, seed) ==
  /\ dstate[d] = "ready"
  /\ rng' = Advance(Seeded(rng, seed))
  /\ own' = IF d = "A" THEN Advance(Seeded(own, seed)) ELSE own
  /\ last' = [op |-> "sample", dataset |-> d, seed |-> seed,
              repeat |-> (seed # <<>> /\ seeded[seed[1]] # {}),
              reseeded |-> (Seeded(rng, seed) # rng),
              raised |-> FALSE,
              value |-> <<RandomChoice(Seeded(rng, seed), problems[d])>>,
              alone |-> IF d = "A"
                          THEN <<RandomChoice(Seeded(own, seed), problems[d])>>
                          ELSE <<RandomChoice(Seeded(rng, seed), problems[d])>>]
  /\ seeded' =
       IF seed = <<>> THEN seeded
       ELSE [seeded EXCEPT ![seed[1]] =
               @ \cup {RandomChoice(Seeded(rng, seed), problems[d])._filename.s}]
  /\ UNCHANGED <<procVars, toolVars, imported, dataset_path, dstate, problems>>

\* get_by_index(idx): self.problems[idx], negative indices counting from the
\* end, IndexError outside the list.
GetByIndex(d, idx) ==
  /\ dstate[d] = "ready"
  /\ last' = [NoReturn EXCEPT
               !.op = "get_by_index", !.dataset = d,
               !.raised = (idx >= Len(problems[d]) \/ idx < -Len(problems[d])),
               !.value = IF idx >= Len(problems[d]) \/ idx < -Len(problems[d]) THEN <<>>
                         ELSE IF idx >= 0 THEN <<problems[d][idx + 1]>>
                         ELSE <<problems[d][Len(problems[d]) + idx + 1]>>]
  /\ UNCHANGED <<procVars, toolVars, imported, rng, own, dataset_path, dstate, problems, seeded>>

\* list(dataset): __iter__ yields the problems in order.
Iterate(d) ==
  /\ dstate[d] = "ready"
  /\ last' = [NoReturn EXCEPT !.op = "iter", !.dataset = d, !.value = problems[d]]
  /\ UNCHANGED <<procVars, toolVars, imported, rng, own, dataset_path, dstate, problems, seeded>>

\* ---------------------------------------------- actions: process_examples
\* process_examples(input_data) is called: results = [].
ProcessExamples ==
  /\ gen_pc \in {"idle", "returned", "raised"}
  /\ input_data' \in UNION {[1..n -> Examples] : n \in 0..MaxExamples}
  /\ gen_i' = 0
  /\ gen_results' = <<>>
  /\ gen_pc' = "loop"
  /\ UNCHANGED <<procVars, dataVars, valVars>>

\* One turn of the loop of lines 175-197: the model answers, the answer is
\* parsed, and the example is skipped or appended with what was parsed.
ProcessExample ==
  /\ gen_pc = "loop"
  /\ gen_i < Len(input_data)
  /\ \E reply \in Replies :
       IF generate_perturbations_ollama(reply).raised
         THEN /\ gen_pc' = "raised"
              /\ UNCHANGED <<gen_i, gen_results>>
         ELSE /\ gen_i' = gen_i + 1
              /\ gen_results' =
                   IF Skipped(generate_perturbations_ollama(reply).value)
                     THEN gen_results
                     ELSE Append(gen_results,
                            [specification |-> input_data[gen_i + 1].specification,
                             code |-> input_data[gen_i + 1].code,
                             perturbations |-> generate_perturbations_ollama(reply).value,
                             perturbation_categories |-> categories])
              /\ UNCHANGED gen_pc
  /\ UNCHANGED <<procVars, dataVars, valVars, input_data>>

\* The loop is over: return results (line 199).
ProcessReturn ==
  /\ gen_pc = "loop"
  /\ gen_i = Len(input_data)
  /\ gen_pc' = "returned"
  /\ UNCHANGED <<procVars, dataVars, valVars, input_data, gen_i, gen_results>>

\* ------------------------------------------------ actions: validate_dataset
\* main() up to its loop: without the directory or without files it returns
\* 1 (lines 92-103).
Main ==
  /\ val_pc = "idle"
  /\ \E dir \in ValDirs :
       /\ val_files' = dir.files
       /\ IF ~dir.exists \/ dir.files = <<>>
            THEN val_pc' = "returned" /\ val_exit' = <<1>>
            ELSE val_pc' = "loop" /\ val_exit' = <<>>
  /\ val_results' = <<>>
  /\ UNCHANGED <<procVars, dataVars, genVars>>

\* One turn of the loop of main (lines 108-118): the file is validated and
\* its result appended, or the exception of validate_json_file ends main.
ValidateFile ==
  /\ val_pc = "loop"
  /\ Len(val_results) < Len(val_files)
  /\ LET json_file == val_files[Len(val_results) + 1]
         result == validate_json_file(json_file)
     IN IF result.raised
          THEN val_pc' = "raised" /\ UNCHANGED val_results
          ELSE /\ val_results' = Append(val_results,
                    [name |-> json_file.name, is_valid |-> result.is_valid,
                     errors |-> result.errors])
               /\ UNCHANGED val_pc
  /\ UNCHANGED <<procVars, dataVars, genVars, val_files, val_exit>>

\* After the loop: 0 when no file is invalid, else 1 (lines 125-140).
MainReturn ==
  /\ val_pc = "loop"
  /\ Len(val_results) = Len(val_files)
  /\ val_pc' = "returned"
  /\ val_exit' = <<IF \A k \in DOMAIN val_results : val_results[k].is_valid
                     THEN 0 ELSE 1>>
  /\ UNCHANGED <<procVars, dataVars, genVars, val_files, val_results>>

\* validate_json_file called on one path, which need not exist.
CallValidate ==
  /\ val_pc = "idle"
  /\ \E filepath \in ValPaths :
       LET result == validate_json_file(filepath)
       IN /\ val_files' = <<filepath>>
          /\ IF result.raised
               THEN val_pc' = "raised" /\ UNCHANGED val_results
               ELSE /\ val_pc' = "called"
                    /\ val_results' = <<[name |-> filepath.name,
                                         is_valid |-> result.is_valid,
                                         errors |-> result.errors]>>
  /\ UNCHANGED <<procVars, dataVars, genVars, val_exit>>

\* ---------------------------------------------------- actions: TestGenEnv
\* reset(seed): samples a problem and awaits the action.
Reset ==
  /\ pc = "idle"
  /\ \E p \in Problems :
       /\ current_problem' = p
       /\ obs' = Observation(p)
  /\ envState' = "AwaitingAction"
  /\ step_count' = 0
  /\ event' = "reset"
  /\ UNCHANGED <<pc, caller, suiteVars, execVars, leftover, calls, faults,
                 reward, terminated, truncated, dirVars, timeoutVars, dataVars, toolVars, detVars>>

\* Faulty variant of StepBegin: step is accepted whenever a problem was sampled.
StepBegin_anyState ==
  /\ envState # "Idle"
  /\ \E tc \in TestCodes : StartSuite(tc, current_problem, "step")
  /\ event' = "step"
  /\ UNCHANGED envVars

\* step(test_code) in state AwaitingAction evaluates the suite.
StepBegin ==
  /\ envState = "AwaitingAction"
  /\ \E tc \in TestCodes : StartSuite(tc, current_problem, "step")
  /\ event' = "step"
  /\ UNCHANGED envVars

\* Faulty variant of StepRejected: the rejected call forgets the episode.
StepRejected_forgets ==
  /\ pc = "idle"
  /\ envState # "AwaitingAction"
  /\ envState' = "Idle"
  /\ event' = "usage_error"
  /\ UNCHANGED <<pc, caller, suiteVars, execVars, leftover, calls, faults,
                 current_problem, reward, terminated, truncated, step_count, obs, dirVars, timeoutVars, dataVars, toolVars, detVars>>

\* step(test_code) in any other state is a usage error.
StepRejected ==
  /\ pc = "idle"
  /\ envState # "AwaitingAction"
  /\ event' = "usage_error"
  /\ UNCHANGED <<pc, caller, suiteVars, execVars, leftover, calls, faults, envVars, dirVars, timeoutVars, dataVars, toolVars, detVars>>

\* The evaluation is back: step scores it and ends the episode.
StepReturn ==
  /\ caller = "step"
  /\ SuiteReturns
  /\ reward' = Score(correct_passed, detection_rate')
  /\ terminated' = TRUE
  /\ truncated' = FALSE
  /\ envState' = "Terminated"
  /\ step_count' = step_count + 1
  /\ event' = "step_returned"
  /\ UNCHANGED <<current_problem, obs>>

\* The evaluation raised: the exception leaves step.
StepRaised ==
  /\ pc = "raised"
  /\ caller = "step"
  /\ pc' = "idle"
  /\ caller' = "none"
  /\ envState' \in {"AwaitingAction", "Terminated"}
  /\ event' = "step_raised"
  /\ UNCHANGED <<suiteVars, execVars, leftover, calls, faults, current_problem,
                 reward, terminated, truncated, step_count, obs, dirVars, timeoutVars, dataVars, toolVars, detVars>>

\* One execute_tests call, step by step.
Execute ==
  \/ EnterOk \/ EnterRaises
  \/ RunOk \/ RunRaises \/ RunContainerError
  \/ WaitOk \/ WaitTimeout
  \/ LogsOk \/ LogsRaises
  \/ RemoveOk \/ RemoveRaises

\* The executor driven by a script.
Next ==
  \/ Execute
  \/ CallDirect \/ DirectReturn \/ DirectRaised

Spec == Init /\ [][Next]_vars

\* execute_tests called by a script.
ExecNext ==
  \/ Execute
  \/ CallExecuteTests \/ TestsRaised

ExecSpec == Init /\ [][ExecNext]_vars

\* execute_test_suite called repeatedly on a deterministic backend.
DetNext ==
  \/ UseDeterministicBackend
  \/ Execute
  \/ CallDirectOnce \/ CallDirectAgain \/ DirectReturn \/ DirectRaised

DetSpec == Init /\ [][DetNext]_vars

\* The perturbation generator.
GenNext == ProcessExamples \/ ProcessExample \/ ProcessReturn

GenSpec == Init /\ [][GenNext]_vars

\* The standalone validator.
ValNext == Main \/ ValidateFile \/ MainReturn \/ CallValidate

ValSpec == Init /\ [][ValNext]_vars

\* Datasets loaded and sampled by a script.
DataNext ==
  \/ StartProcess
  \/ \E d \in Datasets : Construct(d)
  \/ \E d \in Datasets, seed \in {<<>>} \cup {<<s>> : s \in Seeds} : Sample(d, seed)
  \/ \E d \in Datasets, idx \in Indices : GetByIndex(d, idx)
  \/ \E d \in Datasets : Iterate(d)

DataSpec == Init /\ [][DataNext]_vars

\* The executor driven by the environment.
EnvNext ==
  \/ Execute
  \/ Reset \/ StepBegin \/ StepRejected \/ StepReturn \/ StepRaised

EnvSpec == Init /\ [][EnvNext]_vars

TypeOK ==
  /\ pc \in {"idle", "call", "run", "wait", "logs", "remove", "raised"}
  /\ caller \in {"none", "direct", "step", "tests"}
  /\ i \in 0..(NumPerturbations + 1)
  /\ container \in {"none", "running", "exited"}
  /\ outcome \in {"none", "running", "returned", "raised"}
  /\ envState \in {"Idle", "AwaitingAction", "Terminated"}
  /\ deterministic \in BOOLEAN
  /\ imported \in BOOLEAN
  /\ rng \in RngStates
  /\ own \in RngStates
  /\ \A d \in Datasets :
       /\ dstate[d] \in {"new", "ready", "failed"}
       /\ dstate[d] = "ready" => problems[d] # <<>>


\* ================================================================ claims
\* Number of targets of one suite evaluation: the correct code and the
\* perturbations.
NumTargets == NumPerturbations + 1

\* The execute_tests calls of the last suite call that returned a dict.
Returned == {k \in DOMAIN log : Len(log[k].ret) = 1}

ResultFields == {"passed", "exit_code", "output", "error"}

\* Number of True entries of a list of booleans.
CountTrue(d) == Cardinality({k \in DOMAIN d : d[k]})

\* ---- C1: a suite evaluation that has ended, by returning or by raising,
\* has performed exactly 6 execute_tests calls: no failure of one execution
\* skips the others.
C1_SixExecutions ==
  outcome \in {"returned", "raised"} => executions = NumTargets

\* ---- C2: an execution whose container.wait timed out has returned
\* passed = False, exit_code = -1 and a non-empty error, and its container is
\* not left running.
C2_TimeoutTerminates ==
  \A k \in Returned :
    log[k].cause = "timeout" =>
      /\ log[k].ret[1].passed = FALSE
      /\ log[k].ret[1].exit_code = -1
      /\ log[k].ret[1].error \notin {None, ""}
      /\ log[k].left # "running"

\* ---- C3: no finished execute_tests call leaves a container at the
\* backend: the number of containers left behind is 0.
C3_NoContainerLeft ==
  /\ leftover.running + leftover.exited = 0
  /\ \A k \in DOMAIN log : log[k].left = "none"

\* ---- C4: execute_tests never raises: every call returns a dict with the
\* fields passed, exit_code, output, error, and so execute_test_suite never
\* raises either.
C4_NeverRaises ==
  /\ pc # "raised"
  /\ outcome # "raised"
  /\ \A k \in DOMAIN log :
       /\ Len(log[k].ret) = 1
       /\ DOMAIN log[k].ret[1] = ResultFields

\* ---- C5, as claimed: passed is True exactly when the runner ran to
\* completion (container.wait returned) with exit status 0.
C5_PassedIffRunnerExitZero ==
  \A k \in Returned :
    log[k].ret[1].passed <=> (log[k].completed /\ log[k].StatusCode = 0)

\* ---- C5, amended: passed is True exactly when the runner ran to completion
\* with exit status 0 and the log retrieval and the container removal after it
\* succeeded, that is, when the dict is the normal one (error None) with
\* exit_code 0; a nonzero status, a timeout, a backend failure give False.
C5_PassedIffNormalExitZero ==
  \A k \in Returned :
    /\ log[k].ret[1].passed <=>
         (log[k].cause = "ok" /\ log[k].completed /\ log[k].StatusCode = 0)
    /\ log[k].ret[1].passed <=>
         (log[k].ret[1].error = None /\ log[k].ret[1].exit_code = 0)
    /\ log[k].cause # "ok" => ~log[k].ret[1].passed

\* C5's case: one execution passed, another one ran to exit status 0 and lost
\* its result to a failing container.logs() or container.remove().
C5_Witness ==
  /\ \E k \in Returned : log[k].ret[1].passed
  /\ \E k \in Returned :
       /\ log[k].cause \in {"logs", "remove"}
       /\ log[k].StatusCode = 0
       /\ ~log[k].ret[1].passed

\* ---- C6: the returned detections has length 5, and detections[j] is True
\* exactly when the execution against perturbations[j] did not pass, whatever
\* the position of that execution among the executions.
C6_DetectionsMatch ==
  outcome = "returned" =>
    /\ Len(detections) = NumPerturbations
    /\ \A j \in 1..NumPerturbations :
         /\ \E k \in Returned : log[k].target = problem.perturbations[j]
         /\ \A k \in Returned :
              log[k].target = problem.perturbations[j] =>
                (detections[j] <=> ~log[k].ret[1].passed)

\* C6's case: a returned suite that detected the first four perturbations and
\* missed the last (the pattern test_docker_execution.py expects).
C6_Witness ==
  /\ outcome = "returned"
  /\ correct_passed
  /\ detections = <<TRUE, TRUE, TRUE, TRUE, FALSE>>

\* ---- C7: the returned detection_rate is the number of True detections
\* divided by 5, and lies in [0, 1].
C7_DetectionRate ==
  outcome = "returned" =>
    /\ RatEq(detection_rate, Rat(CountTrue(detections), NumPerturbations))
    /\ RatLe(Rat(0, 1), detection_rate)
    /\ RatLe(detection_rate, Rat(1, 1))

\* C7's case: a returned suite with 3 of 5 detections.
C7_Witness ==
  /\ outcome = "returned"
  /\ CountTrue(detections) = 3
  /\ detection_rate = Rat(3, NumPerturbations)


\* ---- C8: the reward of a step that returned is -1.0 when correct_passed is
\* False, whatever the detections, and sum(detections)/5 when it is True; test
\* code with a syntax error yields -1.0.
C8_Reward ==
  event = "step_returned" =>
    /\ ~correct_passed => RatEq(reward, Rat(-1, 1))
    /\ correct_passed =>
         RatEq(reward, Rat(CountTrue(detections), NumPerturbations))
    /\ test_code = "syntax_error" => RatEq(reward, Rat(-1, 1))

\* C8's case: the suite fails on the correct code and on all five
\* perturbations, and the step returns -1.0.
C8_Witness ==
  /\ event = "step_returned"
  /\ ~correct_passed
  /\ CountTrue(detections) = NumPerturbations
  /\ RatEq(reward, Rat(-1, 1))

\* ---- C9: an evaluation starts only from state AwaitingAction; a step in
\* another state is a usage error that starts no evaluation and runs no
\* execution; at most one step returns per reset.
C9_StepOnlyWhenAwaiting ==
  /\ [](step_count <= 1)
  /\ [][calls' # calls => envState = "AwaitingAction" /\ event' = "step"]_vars
  /\ [][event' = "usage_error" =>
          /\ envState # "AwaitingAction"
          /\ UNCHANGED <<pc, calls, executions, log, results, outcome>>]_vars
  /\ [][step_count' = step_count + 1 => envState = "AwaitingAction"]_vars

\* C9's case: a second step after a step that returned, rejected.
C9_Witness ==
  /\ event = "usage_error"
  /\ envState = "Terminated"
  /\ step_count = 1
  /\ calls = 1

\* ---- C10: a step that returned gave terminated = True and truncated =
\* False and left the environment Terminated; Terminated is left only by
\* reset, to AwaitingAction; a rejected step changes nothing of the episode.
C10_Terminates ==
  /\ [](event = "step_returned" =>
          terminated /\ ~truncated /\ envState = "Terminated")
  /\ [][envState = "Terminated" /\ envState' # "Terminated" =>
          envState' = "AwaitingAction" /\ event' = "reset"]_vars
  /\ [][event' = "usage_error" => UNCHANGED envVars]_vars

\* C10's case: the step of a second episode returned and left the environment
\* Terminated.
C10_Witness ==
  /\ event = "step_returned"
  /\ envState = "Terminated"
  /\ terminated
  /\ calls = 2


\* ---- C11: the observation of reset holds the specification and the
\* reference code of the sampled problem and nothing else: every problem with
\* the same specification and reference code, whatever its perturbations,
\* gives this same observation, and no perturbation text occurs in it.
C11_ObservationHidesPerturbations ==
  event = "reset" =>
    /\ DOMAIN obs = {"spec", "correct_code"}
    /\ obs.spec = current_problem.spec
    /\ obs.correct_code = current_problem.problem
    /\ \A q \in Problems :
         (q.spec = current_problem.spec /\ q.problem = current_problem.problem)
           => Observation(q) = obs
    /\ \A k \in DOMAIN obs, j \in DOMAIN current_problem.perturbations :
         obs[k] # current_problem.perturbations[j]

\* C11's case: reset sampled b.json, which differs from a.json in its
\* perturbations only.
C11_Witness ==
  /\ event = "reset"
  /\ current_problem._filename = "b.json"
  /\ \E q \in Problems :
       /\ q.perturbations # current_problem.perturbations
       /\ q.spec = current_problem.spec
       /\ q.problem = current_problem.problem


C13_ErrorMarksInfrastructureFailure ==
  \A k \in DOMAIN log :
    /\ Len(log[k].ret) = 1
    /\ log[k].cause \in {"write", "run", "container_error", "logs", "remove"} =>
         /\ ~log[k].ret[1].passed
         /\ log[k].ret[1].error # None
    /\ log[k].ret[1].error = None <=> log[k].completed
    /\ log[k].ret[1].error # ""


\* The six executions of a returned suite are stored under the key 'first' for
\* the reference code and under perturbation_0 .. perturbation_4 for the
\* perturbations, each key holding the result of the execution against its
\* target.
StoredUnder(first) ==
  outcome = "returned" =>
    /\ DOMAIN results =
         {first, "perturbation_0", "perturbation_1", "perturbation_2",
          "perturbation_3", "perturbation_4"}
    /\ log[1].target = problem.problem
    /\ results[first] = log[1].ret[1]
    /\ \A j \in 0 .. NumPerturbations - 1 :
         /\ log[j + 2].target = problem.perturbations[j + 1]
         /\ results["perturbation_" \o ToString(j)] = log[j + 2].ret[1]

\* ---- C14, as claimed: the result mapping of a suite evaluation has exactly
\* the keys "reference", "perturbation_0" .. "perturbation_4", "reference"
\* holding the result against the reference code and "perturbation_i" the
\* result against perturbations[i].
C14_KeysReferenceAndPerturbations == StoredUnder("reference")

\* ---- C14, corrected: the result mapping has exactly the keys "correct",
\* "perturbation_0" .. "perturbation_4", "correct" holding the result
\* against the reference code and "perturbation_i" the result against
\* perturbations[i].
C14_KeysCorrectAndPerturbations == StoredUnder("correct")

\* C14's case: a returned suite whose six stored results are not all alike.
C14_Witness ==
  /\ outcome = "returned"
  /\ results["correct"].passed
  /\ ~results["perturbation_0"].passed
  /\ results["perturbation_4"].error # None


\* ---- C15: the limit applied to waiting for the container is the timeout
\* execute_tests was given, whatever its value, 0 included; the instance
\* default is the limit only when no timeout was passed.
C15_LimitIsGivenTimeout ==
  \A k \in DOMAIN log :
    log[k].cause \in {"ok", "timeout", "logs", "remove"} =>
      log[k].timeout =
        IF log[k].timeout_arg = <<>> THEN DefaultTimeout ELSE log[k].timeout_arg[1]


\* A problem document is malformed: a field is missing, perturbations is not
\* a list of 5, an element of it is not a non-empty string, or a code body
\* does not compile.
Malformed(p) ==
  \/ ~({"spec", "problem", "perturbations"} \subseteq DOMAIN p)
  \/ p.perturbations.t # "list"
  \/ Len(p.perturbations.items) # NumPerturbations
  \/ \E j \in DOMAIN p.perturbations.items :
       \/ p.perturbations.items[j].t # "str"
       \/ p.perturbations.items[j].s = ""
       \/ ~SyntaxValid(p.perturbations.items[j].s)
  \/ ~SyntaxValid(p.problem.s)

\* ---- C16: no malformed problem is held by a constructed dataset or
\* returned by sample, get_by_index or iteration, and rejecting a file does
\* not abort loading: every well-formed file of the directory is loaded.
C16_MalformedNeverLoaded ==
  /\ \A d \in Datasets : \A k \in DOMAIN problems[d] : ~Malformed(problems[d][k])
  /\ \A k \in DOMAIN last.value : ~Malformed(last.value[k])
  /\ \A d \in Datasets, j \in DOMAIN dataset_path.files :
       (/\ dstate[d] # "new"
        /\ dataset_path.files[j].parses
        /\ dataset_path.files[j].isdict
        /\ ~Malformed(dataset_path.files[j].fields))
         => \E k \in DOMAIN problems[d] :
              problems[d][k] = Loaded(dataset_path.files[j])

\* ---- C17: every problem a dataset holds, and every problem returned by
\* sample, get_by_index or iteration, has the fields spec, problem and
\* perturbations, and perturbations is a list of exactly 5 elements.
C17_LoadedProblemsHaveFields ==
  \A p \in UNION {{problems[d][k] : k \in DOMAIN problems[d]} : d \in Datasets}
           \cup {last.value[k] : k \in DOMAIN last.value} :
    /\ {"spec", "problem", "perturbations"} \subseteq DOMAIN p
    /\ p.perturbations.t = "list"
    /\ Len(p.perturbations.items) = NumPerturbations

\* C17's case: a directory with a file of four perturbations next to a
\* well-formed one was loaded, and a problem was sampled after other calls.
C17_Witness ==
  /\ \E j \in DOMAIN dataset_path.files :
       dataset_path.files[j].name = "four_perturbations.json"
  /\ last.op = "sample"
  /\ last.repeat
  /\ Len(last.value) = 1
  /\ dstate["B"] = "ready"

\* ---- C18: all sample(seed) calls with the same seed, 0 included, return
\* the same problem of the loaded list, whatever calls came before.
C18_SeededSampleDeterministic ==
  \A s \in Seeds : Cardinality(seeded[s]) <= 1

\* C18's case: with two problems loaded, sample(0) is called again in a
\* generator state that other draws left, and sample(1) returned the other
\* problem.
C18_Witness ==
  /\ Len(problems["A"]) = 2
  /\ last.op = "sample"
  /\ last.seed = <<0>>
  /\ last.repeat
  /\ last.reseeded
  /\ seeded[1] # {}
  /\ seeded[1] # seeded[0]

\* ---- C19: what dataset "A" draws is what it would draw had no other
\* dataset sampled in the process.
C19_NoInterference ==
  (last.op = "sample" /\ last.dataset = "A") => last.value = last.alone


\* ---- C20: on a deterministic backend, every execute_test_suite call with
\* the arguments of the call before ends as that call did: it returns the
\* same correct_passed, detections, detection_rate and per-target results,
\* or raises as it did.
C20_Idempotent ==
  \A j, k \in DOMAIN returns : returns[j] = returns[k]

\* C20's case: two calls returned, the reference passed, one perturbation was
\* detected, one was missed and one execution failed at the backend.
C20_Witness ==
  /\ Len(returns) = 2
  /\ ~returns[2].raised
  /\ returns[2].correct_passed
  /\ \E j, k \in DOMAIN returns[2].detections :
       returns[2].detections[j] /\ ~returns[2].detections[k]
  /\ \E key \in DOMAIN returns[2].results : returns[2].results[key].error # None


\* ---- C21: every record of process_examples' results has a perturbations
\* list of exactly 5 elements, as many as perturbation_categories, whatever
\* the model answered.
C21_FivePerturbationsPerExample ==
  \A k \in DOMAIN gen_results :
    /\ gen_results[k].perturbations.t = "list"
    /\ Len(gen_results[k].perturbations.items) = NumPerturbations
    /\ Len(gen_results[k].perturbations.items) =
         Len(gen_results[k].perturbation_categories)


\* The positions of the directory's files that parse and pass validation.
ValidPositions ==
  {j \in DOMAIN dataset_path.files : Loads(dataset_path.files[j])}

\* ---- C22: constructing a dataset raises exactly when the path does not
\* exist, holds no *.json file or holds no valid file; otherwise problems
\* holds the valid files and only them, once each and in the directory's
\* order, each with its own content and its own _filename, wherever the
\* files that fail stand among them.
C22_LoadsEveryValidFile ==
  \A d \in Datasets :
    /\ dstate[d] = "failed" <=> (imported /\ dstate[d] # "new" /\ ValidPositions = {})
    /\ dstate[d] = "failed" => problems[d] = <<>>
    /\ dstate[d] = "ready" =>
         /\ Len(problems[d]) = Cardinality(ValidPositions)
         /\ \A j \in ValidPositions :
              LET k == Cardinality({m \in ValidPositions : m <= j})
              IN /\ problems[d][k]._filename = JStr(dataset_path.files[j].name)
                 /\ \A field \in DOMAIN dataset_path.files[j].fields :
                      problems[d][k][field] = dataset_path.files[j].fields[field]

\* C22's case: a file that does not parse stands before a valid one, and the
\* dataset was constructed with the valid one loaded.
C22_Witness ==
  /\ dstate["A"] = "ready"
  /\ Len(dataset_path.files) = 2
  /\ ~dataset_path.files[1].parses
  /\ Loads(dataset_path.files[2])
  /\ Len(problems["A"]) = 1


\* A file as the validator's contract wants it: an object with the three
\* fields, spec and problem non-empty strings, perturbations a list of 5
\* non-empty strings, every code body compiling.
FullyValid(json_file) ==
  /\ json_file.exists /\ json_file.parses /\ json_file.isdict
  /\ {"spec", "problem", "perturbations"} \subseteq DOMAIN json_file.fields
  /\ LET data == json_file.fields
     IN /\ data.spec.t = "str" /\ data.spec.s # ""
        /\ data.problem.t = "str" /\ data.problem.s # ""
        /\ SyntaxValid(data.problem.s)
        /\ data.perturbations.t = "list"
        /\ Len(data.perturbations.items) = NumPerturbations
        /\ \A j \in DOMAIN data.perturbations.items :
             /\ data.perturbations.items[j].t = "str"
             /\ data.perturbations.items[j].s # ""
             /\ SyntaxValid(data.perturbations.items[j].s)

\* What validate_json_file returned is right for the files it was given:
\* (True, []) only for a fully valid file, and (False, errors) with some
\* error for every other file.
ValuesReported ==
  \A k \in DOMAIN val_results :
    /\ val_results[k].is_valid <=> val_results[k].errors = <<>>
    /\ val_results[k].is_valid => FullyValid(val_files[k])

\* ---- C23: validate_json_file never raises: whatever the file holds, it
\* returns (False, errors) with at least one error when the file is
\* malformed, and (True, []) only when the file is fully valid.
C23_MalformedReportedNeverRaised ==
  /\ val_pc # "raised"
  /\ ValuesReported


\* ---- C24: every file for which validate_json_file returned (True, [])
\* passes _validate_problem and is loaded by ProblemDataset; and when main
\* accepted all files of a directory, a dataset constructed on that
\* directory does not raise and holds every file of it, in order.
C24_ValidatorAtLeastAsStrict ==
  /\ \A k \in DOMAIN val_results :
       (val_results[k].is_valid /\ val_results[k].errors = <<>>)
         => /\ _validate_problem(val_files[k].fields)
            /\ Loads(val_files[k])
  /\ val_exit = <<0>> =>
       LET loaded == _load_problems([exists |-> TRUE, files |-> val_files])
       IN /\ ~loaded.raised
          /\ Len(loaded.problems) = Len(val_files)
          /\ \A k \in DOMAIN val_files :
               loaded.problems[k] = Loaded(val_files[k])

\* C24's case: main accepted a directory of two files.
C24_Witness ==
  /\ val_pc = "returned"
  /\ val_exit = <<0>>
  /\ Len(val_files) = 2
  /\ \A k \in DOMAIN val_results : val_results[k].is_valid

====
